---- MODULE Spec2Model ----
(***************************************************************************)
(* Model of frontend/lib/hooks/use-auth.ts: the useAuth hook (session +    *)
(* profile query reconciliation with a single-flight sign-out) and the     *)
(* invite acceptance page (InviteContent).                                 *)
(*                                                                         *)
(* The session provider (useSession/signOut), the query layer (useQuery)   *)
(* and the backend are the environment: their events are the actions, and  *)
(* every action ends with the re-render of the hook that the event causes, *)
(* including the run of the reconciliation effect when its dependencies    *)
(* changed.                                                                *)
(***************************************************************************)
EXTENDS Integers, FiniteSets, Sequences, TLC

\* ------------------------------------------------------------------ bounds
\* Number of distinct access tokens (credentials) a session may carry.
MaxTok == 2

\* ---------------------------------------------------------------- constants
NoToken == 0            \* session?.accessToken is undefined
Undefined == -1         \* userQuery.data before any successful fetch
Null == 0               \* the backend answered with an empty body

\* Longest invite token (characters) in the page's query string.
MaxTokenLen == 2

Tokens == 1..MaxTok
SessionStatus == {"loading", "authenticated", "unauthenticated"}
FetchErrors == {"401", "other"}   \* ApiError with status 401 / any other error

VARIABLES
    status,        \* useSession().status
    sessTok,       \* session?.accessToken (NoToken when absent)
    apiTok,        \* the token the API client sends (setAccessToken)
    userQuery,     \* state of the query cached under ['auth-user']
    signingOut,    \* signingOut.current
    soInFlight,    \* signOut() promises not yet settled
    \* history of the last step, and of the run
    fetchStarted,  \* the last step started a GET /users/me
    soStarted,     \* number of signOut() calls the last step started
    lastSettle,    \* how the most recent fetch settled
    just401,       \* the last step was a fetch settling with a 401
    everFetched,   \* some fetch has been started
    episodeStarts  \* signOut() calls started in the current
                   \* authenticated-without-token episode

authVars == <<status, sessTok, apiTok, userQuery, signingOut, soInFlight,
              fetchStarted, soStarted, lastSettle, just401, everFetched,
              episodeStarts>>

\* the invite page (InviteContent)
VARIABLES
    token,         \* searchParams.get('token'): [present, value]
    pageStatus,    \* useSession().status as the page reads it
    mounted,       \* the first effect run has happened
    joinByToken,   \* state of the useJoinFamilyByToken mutation
    navs,          \* router calls issued so far
    lastNav,       \* the router call of the last step ("none" if none)
    lastUrl,       \* the URL that router call was given (characters)
    shown,         \* what the page has rendered so far
    toasts,        \* family names shown in a success notification
    \* history of the join calls
    joinCalls,     \* mutateAsync promises not yet settled
    lastAttempt,   \* outcome of the most recent accept ("none" before any)
    joinedOk,      \* some join call has resolved
    everFailed     \* some join call has rejected

inviteVars == <<token, pageStatus, mounted, joinByToken, navs, lastNav,
                lastUrl, shown, toasts, joinCalls, lastAttempt, joinedOk,
                everFailed>>

vars == <<authVars, inviteVars>>

\* useQuery state before the first fetch
InitialQuery ==
    [status |-> "pending", data |-> Undefined, error |-> "none",
     fetchStatus |-> "idle", fetchTok |-> NoToken, stale |-> FALSE]

\* const hasToken = !!session?.accessToken
HasToken(tk) == tk # NoToken

\* if (session?.accessToken) setAccessToken(session.accessToken):
\* the API client's token after a render that reads session token tk
SetAccessToken_Clears(tk, cur) == tk
SetAccessToken(tk, cur) == IF HasToken(tk) THEN tk ELSE cur

\* enabled: status === 'authenticated' && hasToken
Enabled_NoTokenCheck(st, tk) == st = "authenticated"
Enabled(st, tk) == st = "authenticated" /\ HasToken(tk)

\* staleTime: data older than 5 minutes, or no data at all, is stale
IsStale(q) == q.data = Undefined \/ q.stale

\* the query starts fetching: with no data yet it goes back to pending and
\* drops its error; with data it keeps status, data and error while fetching
FetchState(q, tk) ==
    IF q.data = Undefined
    THEN [q EXCEPT !.fetchStatus = "fetching", !.fetchTok = tk,
                   !.status = "pending", !.error = "none"]
    ELSE [q EXCEPT !.fetchStatus = "fetching", !.fetchTok = tk]

\* queryFn resolved with d
FetchSuccess(q, d) ==
    [status |-> "success", data |-> d, error |-> "none",
     fetchStatus |-> "idle", fetchTok |-> NoToken, stale |-> FALSE]

\* queryFn rejected with e; retry: false, so the failure is final
FetchError_Retries(q, e) ==
    [q EXCEPT !.status = "error", !.error = e]
FetchError(q, e) ==
    [q EXCEPT !.status = "error", !.error = e, !.fetchStatus = "idle",
              !.fetchTok = NoToken]

\* The reconciliation effect: number of signOut() calls one run starts.
EffectStarts_NoGuard(guard, err, st, tk) ==
    IF err = "401" THEN 1
    ELSE IF st = "authenticated" /\ ~HasToken(tk) THEN 1
    ELSE 0
EffectStarts(guard, err, st, tk) ==
    IF guard THEN 0
    ELSE IF err = "401" THEN 1
    ELSE IF st = "authenticated" /\ ~HasToken(tk) THEN 1
    ELSE 0

\* status === 'authenticated' && !hasToken
AuthNoToken(st, tk) == st = "authenticated" /\ ~HasToken(tk)

\* ------------------------------------------------------------- the AuthView
IsPending_Fetching == userQuery.fetchStatus = "fetching"
IsPending == userQuery.status = "pending"
IsSuccess == userQuery.status = "success"

IsAuthenticated_DataOnly == userQuery.data \notin {Undefined, Null}
IsAuthenticated == IsSuccess /\ userQuery.data \notin {Undefined, Null}

IsLoading ==
    status = "loading" \/ (status = "authenticated" /\ IsPending)

User == userQuery.data

\* ------------------------------------------------------------------- Init
AuthInit ==
    /\ status = "loading"
    /\ sessTok = NoToken
    /\ apiTok = NoToken
    /\ userQuery = InitialQuery
    /\ signingOut = FALSE
    /\ soInFlight = 0
    /\ fetchStarted = FALSE
    /\ soStarted = 0
    /\ lastSettle = "none"
    /\ just401 = FALSE
    /\ everFetched = FALSE
    /\ episodeStarts = 0

(***************************************************************************)
(* One render of useAuth after an event.  st, tk: the session the render   *)
(* reads; q0: the query state the event left; errNew: the event produced a *)
(* new error object; guard: signingOut.current as the effect reads it;     *)
(* release: the .then callback of a signOut() runs after the effect;       *)
(* done: signOut() promises the event settled; refetch: the event asks for *)
(* a refetch; settle: how a fetch settled in this event ("" if none).      *)
(***************************************************************************)
Render(st, tk, q0, errNew, guard, release, done, refetch, settle) ==
    LET api == SetAccessToken(tk, apiTok)
        \* the observer fetches when the query becomes enabled with stale
        \* data, or on request; a fetch already running is joined
        wants == \/ refetch
                 \/ Enabled(st, tk) /\ ~Enabled(status, sessTok) /\ IsStale(q0)
        starts == wants /\ q0.fetchStatus = "idle"
        q1 == IF starts THEN FetchState(q0, api) ELSE q0
        depsChanged == \/ errNew
                       \/ q1.error # userQuery.error
                       \/ st # status
                       \/ HasToken(tk) # HasToken(sessTok)
        n == IF depsChanged THEN EffectStarts(guard, q1.error, st, tk) ELSE 0
        prior == IF AuthNoToken(status, sessTok) THEN episodeStarts ELSE 0
    IN  /\ status' = st
        /\ sessTok' = tk
        /\ apiTok' = api
        /\ userQuery' = q1
        /\ signingOut' = IF release THEN FALSE ELSE (guard \/ n > 0)
        /\ soInFlight' = soInFlight - done + n
        /\ fetchStarted' = starts
        /\ soStarted' = n
        /\ lastSettle' = IF settle = "" THEN lastSettle ELSE settle
        /\ just401' = (settle = "401")
        /\ everFetched' = (everFetched \/ starts)
        /\ episodeStarts' = IF AuthNoToken(st, tk) THEN prior + n ELSE 0
        /\ UNCHANGED inviteVars

\* ------------------------------------------------------ session provider
\* the provider starts refreshing the session: status is 'loading' while
\* the session object it already has stays in place
SessionLoading ==
    /\ status # "loading"
    /\ Render("loading", sessTok, userQuery, FALSE, signingOut, FALSE, 0,
              FALSE, "")

\* the provider delivers a session, with or without an accessToken
SessionAuthenticated(tk) ==
    /\ <<status, sessTok>> # <<"authenticated", tk>>
    /\ Render("authenticated", tk, userQuery, FALSE, signingOut, FALSE, 0,
              FALSE, "")

\* the provider reports that there is no session
SessionUnauthenticated ==
    /\ status # "unauthenticated"
    /\ Render("unauthenticated", NoToken, userQuery, FALSE, signingOut,
              FALSE, 0, FALSE, "")

\* ------------------------------------------------------------ query layer
\* GET /users/me resolves: the profile of the credential the request
\* carried, or an empty body
FetchSucceeds(empty) ==
    /\ userQuery.fetchStatus = "fetching"
    /\ LET d == IF empty \/ userQuery.fetchTok = NoToken THEN Null
                ELSE userQuery.fetchTok
       IN Render(status, sessTok, FetchSuccess(userQuery, d), FALSE,
                 signingOut, FALSE, 0, FALSE, IF d = Null THEN "empty" ELSE "ok")

\* GET /users/me rejects
FetchFails(e) ==
    /\ userQuery.fetchStatus = "fetching"
    /\ Render(status, sessTok, FetchError(userQuery, e), TRUE, signingOut,
              FALSE, 0, FALSE, e)

\* five minutes pass since the data was fetched
StaleTimeElapses ==
    /\ userQuery.data # Undefined
    /\ ~userQuery.stale
    /\ userQuery' = [userQuery EXCEPT !.stale = TRUE]
    /\ fetchStarted' = FALSE
    /\ soStarted' = 0
    /\ just401' = FALSE
    /\ UNCHANGED <<status, sessTok, apiTok, signingOut, soInFlight,
                   lastSettle, everFetched, episodeStarts>>
    /\ UNCHANGED inviteVars

\* the browser comes back online: an enabled observer refetches stale data
\* (refetchOnReconnect is left at its default)
Reconnect ==
    /\ Enabled(status, sessTok)
    /\ IsStale(userQuery)
    /\ userQuery.fetchStatus = "idle"
    /\ Render(status, sessTok, userQuery, FALSE, signingOut, FALSE, 0,
              TRUE, "")

\* ---------------------------------------------------------------- signOut
\* signOut({ redirect: false }) resolves: the session is gone, and the
\* .then callback releases the guard.  The callback and the re-render the
\* session change causes run in either order.
SignOutResolves(thenFirst) ==
    /\ soInFlight > 0
    /\ Render("unauthenticated", NoToken, userQuery, FALSE,
              IF thenFirst THEN FALSE ELSE signingOut, ~thenFirst, 1,
              FALSE, "")

\* signOut({ redirect: false }) rejects: no callback is attached to the
\* rejection, the session stays as it is and nothing re-renders
SignOutRejects ==
    /\ soInFlight > 0
    /\ soInFlight' = soInFlight - 1
    /\ fetchStarted' = FALSE
    /\ soStarted' = 0
    /\ just401' = FALSE
    /\ UNCHANGED <<status, sessTok, apiTok, userQuery, signingOut,
                   lastSettle, everFetched, episodeStarts>>
    /\ UNCHANGED inviteVars

AuthNext ==
    \/ SessionLoading
    \/ \E tk \in {NoToken} \cup Tokens : SessionAuthenticated(tk)
    \/ SessionUnauthenticated
    \/ \E empty \in BOOLEAN : FetchSucceeds(empty)
    \/ \E e \in FetchErrors : FetchFails(e)
    \/ StaleTimeElapses
    \/ Reconnect
    \/ \E thenFirst \in BOOLEAN : SignOutResolves(thenFirst)
    \/ SignOutRejects


(***************************************************************************)
(* The invite page: InviteContent                                          *)
(***************************************************************************)

TokenChars == {"a", "&"}
TokenValues ==
    UNION {[1..n -> TokenChars] : n \in 0..MaxTokenLen}
\* no token parameter, or a parameter with a value (possibly empty)
TokenParams ==
    {[present |-> FALSE, value |-> <<>>]}
        \cup {[present |-> TRUE, value |-> v] : v \in TokenValues}
Families == {"Smiths", "Joneses"}
JoinErrors == {"404", "403", "409", "500", "network"}


\* ------------------------------------------------------ URLs as characters
FamilyPath ==
    <<"/", "d", "a", "s", "h", "b", "o", "a", "r", "d", "/",
      "f", "a", "m", "i", "l", "y">>
LoginPrefix ==
    <<"/", "l", "o", "g", "i", "n", "?",
      "c", "a", "l", "l", "b", "a", "c", "k", "U", "r", "l", "=">>
InvitePrefix ==
    <<"/", "i", "n", "v", "i", "t", "e", "?", "t", "o", "k", "e", "n", "=">>
TokenKey == <<"t", "o", "k", "e", "n", "=">>

\* the characters encodeURIComponent leaves as they are
Unreserved ==
    {"a", "b", "c", "d", "e", "f", "g", "h", "i", "j", "k", "l", "m", "n",
     "o", "p", "q", "r", "s", "t", "u", "v", "w", "x", "y", "z",
     "A", "B", "C", "D", "E", "F", "G", "H", "I", "J", "K", "L", "M", "N",
     "O", "P", "Q", "R", "S", "T", "U", "V", "W", "X", "Y", "Z",
     "0", "1", "2", "3", "4", "5", "6", "7", "8", "9",
     "-", "_", ".", "!", "~", "*", "'", "(", ")"}

\* the escape sequence of a reserved character
PercentCode(c) ==
    CASE c = "/" -> <<"%", "2", "F">>
      [] c = "?" -> <<"%", "3", "F">>
      [] c = "=" -> <<"%", "3", "D">>
      [] c = "&" -> <<"%", "2", "6">>
      [] c = "%" -> <<"%", "2", "5">>
      [] c = "#" -> <<"%", "2", "3">>
      [] c = "+" -> <<"%", "2", "B">>
      [] c = " " -> <<"%", "2", "0">>
Reserved == {"/", "?", "=", "&", "%", "#", "+", " "}

RECURSIVE EncodeURIComponent(_)
EncodeURIComponent(str) ==
    IF str = <<>> THEN <<>>
    ELSE (IF Head(str) \in Unreserved THEN <<Head(str)>>
          ELSE PercentCode(Head(str))) \o EncodeURIComponent(Tail(str))

\* a "%XY" escape is replaced by its character; other characters are kept
RECURSIVE DecodeURIComponent(_)
DecodeURIComponent(str) ==
    IF str = <<>> THEN <<>>
    ELSE IF Head(str) = "%" /\ Len(str) >= 3
            /\ \E c \in Reserved : PercentCode(c) = SubSeq(str, 1, 3)
    THEN <<CHOOSE c \in Reserved : PercentCode(c) = SubSeq(str, 1, 3)>>
             \o DecodeURIComponent(SubSeq(str, 4, Len(str)))
    ELSE <<Head(str)>> \o DecodeURIComponent(Tail(str))

\* the query string of a URL: what follows the first "?"
RECURSIVE QueryOf(_)
QueryOf(url) ==
    IF url = <<>> THEN <<>>
    ELSE IF Head(url) = "?" THEN Tail(url)
    ELSE QueryOf(Tail(url))

\* the first "&"-separated field of a query string, and what follows it
RECURSIVE FirstField(_)
FirstField(q) ==
    IF q = <<>> \/ Head(q) = "&" THEN <<>>
    ELSE <<Head(q)>> \o FirstField(Tail(q))
RestFields(q) ==
    IF Len(FirstField(q)) >= Len(q) THEN <<>>
    ELSE SubSeq(q, Len(FirstField(q)) + 2, Len(q))

\* searchParams.get('token') on a query string: the decoded value of the
\* first token=... field
RECURSIVE SearchParamsGet(_)
SearchParamsGet(q) ==
    IF q = <<>> THEN [present |-> FALSE, value |-> <<>>]
    ELSE LET f == FirstField(q)
         IN IF Len(f) >= Len(TokenKey) /\ SubSeq(f, 1, Len(TokenKey)) = TokenKey
            THEN [present |-> TRUE,
                  value |-> DecodeURIComponent(
                                SubSeq(f, Len(TokenKey) + 1, Len(f)))]
            ELSE SearchParamsGet(RestFields(q))

\* `/login?callbackUrl=${encodeURIComponent(`/invite?token=${token}`)}`
LoginUrl(tv) == LoginPrefix \o EncodeURIComponent(InvitePrefix \o tv)

\* the URL a router call is given
NavUrl(call) ==
    CASE call = "replace:/login" -> LoginUrl(token.value)
      [] call = "replace:/dashboard/family" -> FamilyPath
      [] call = "push:/dashboard/family" -> FamilyPath
      [] OTHER -> <<>>

\* !token: null and the empty string are both falsy
NoInviteToken(t) == ~t.present \/ t.value = <<>>

\* the redirect effect of InviteContent: the router call one run issues
InviteEffect_StatusFirst(t, st) ==
    IF st = "unauthenticated" THEN "replace:/login"
    ELSE IF NoInviteToken(t) THEN "replace:/dashboard/family"
    ELSE "none"
InviteEffect(t, st) ==
    IF NoInviteToken(t) THEN "replace:/dashboard/family"
    ELSE IF st = "unauthenticated" THEN "replace:/login"
    ELSE "none"

\* what InviteContent returns
InviteView_LoaderWhileLoading(t, st) ==
    IF NoInviteToken(t) THEN "null"
    ELSE IF st = "loading" THEN "loader"
    ELSE "accept"
InviteView(t, st) ==
    IF NoInviteToken(t) THEN "null"
    ELSE IF st \in {"loading", "unauthenticated"} THEN "loader"
    ELSE "accept"

\* getErrorMessage(error); "network" stands for an error that is no ApiError
GetErrorMessage_No409(e) ==
    IF e = "404" THEN "This invite link is invalid or has expired."
    ELSE IF e = "403" THEN "This invite was sent to a different email address."
    ELSE "Something went wrong. Please try again."
GetErrorMessage(e) ==
    IF e \in {"404", "403", "409", "500"}
    THEN IF e = "404" THEN "This invite link is invalid or has expired."
         ELSE IF e = "403"
              THEN "This invite was sent to a different email address."
         ELSE IF e = "409" THEN "You are already in a family."
         ELSE "Something went wrong. Please try again."
    ELSE "Something went wrong. Please try again."

\* {joinByToken.isError && <p>{getErrorMessage(joinByToken.error)}</p>},
\* "" when no message is on the page
RenderedMessage ==
    IF InviteView(token, pageStatus) = "accept" /\ joinByToken.status = "error"
    THEN GetErrorMessage(joinByToken.error)
    ELSE ""

\* disabled={joinByToken.isPending || joinByToken.isSuccess}
AcceptDisabled_PendingOnly(j) == j.status = "pending"
AcceptDisabled(j) == j.status = "pending" \/ j.status = "success"

IdleMutation ==
    [status |-> "idle", error |-> "none", variables |-> <<>>, data |-> ""]

\* the page as it is while it is not open
InviteClosed ==
    /\ token = [present |-> FALSE, value |-> <<>>]
    /\ pageStatus = "loading"
    /\ mounted = FALSE
    /\ joinByToken = IdleMutation
    /\ navs = {}
    /\ lastNav = "none"
    /\ lastUrl = <<>>
    /\ shown = {}
    /\ toasts = {}
    /\ joinCalls = 0
    /\ lastAttempt = "none"
    /\ joinedOk = FALSE
    /\ everFailed = FALSE

\* the page has rendered for the first time; its effect has not run yet
InviteInit ==
    /\ token \in TokenParams
    /\ pageStatus \in SessionStatus
    /\ mounted = FALSE
    /\ joinByToken = IdleMutation
    /\ navs = {}
    /\ lastNav = "none"
    /\ lastUrl = <<>>
    /\ shown = {InviteView(token, pageStatus)}
    /\ toasts = {}
    /\ joinCalls = 0
    /\ lastAttempt = "none"
    /\ joinedOk = FALSE
    /\ everFailed = FALSE

Navigate(call) ==
    /\ lastNav' = call
    /\ lastUrl' = NavUrl(call)
    /\ navs' = IF call = "none" THEN navs ELSE navs \cup {call}

\* the effect runs after the first render
InviteMount ==
    /\ ~mounted
    /\ mounted' = TRUE
    /\ Navigate(InviteEffect(token, pageStatus))
    /\ UNCHANGED <<token, pageStatus, joinByToken, shown, toasts, joinCalls,
                   lastAttempt, joinedOk, everFailed>>
    /\ UNCHANGED authVars

\* the session status changes: the page re-renders and, status being a
\* dependency, the effect runs again
InviteSessionChange(st) ==
    /\ mounted
    /\ st # pageStatus
    /\ pageStatus' = st
    /\ shown' = shown \cup {InviteView(token, st)}
    /\ Navigate(InviteEffect(token, st))
    /\ UNCHANGED <<token, mounted, joinByToken, toasts, joinCalls,
                   lastAttempt, joinedOk, everFailed>>
    /\ UNCHANGED authVars

\* handleAccept up to its await: the button is rendered and enabled
HandleAccept ==
    /\ mounted
    /\ InviteView(token, pageStatus) = "accept"
    /\ ~AcceptDisabled(joinByToken)
    /\ joinByToken' = [status |-> "pending", error |-> "none",
                       variables |-> token.value, data |-> ""]
    /\ joinCalls' = joinCalls + 1
    /\ lastAttempt' = "pending"
    /\ Navigate("none")
    /\ UNCHANGED <<token, pageStatus, mounted, shown, toasts, joinedOk,
                   everFailed>>
    /\ UNCHANGED authVars

\* mutateAsync resolves: the rest of the try block runs
JoinResolves(family) ==
    /\ joinByToken.status = "pending"
    /\ joinByToken' = [joinByToken EXCEPT !.status = "success",
                                          !.data = family]
    /\ toasts' = toasts \cup {family}
    /\ Navigate("push:/dashboard/family")
    /\ joinCalls' = joinCalls - 1
    /\ lastAttempt' = "ok"
    /\ joinedOk' = TRUE
    /\ UNCHANGED <<token, pageStatus, mounted, shown, everFailed>>
    /\ UNCHANGED authVars

\* mutateAsync rejects: the catch block swallows the error
JoinRejects_Navigates(e) ==
    /\ joinByToken.status = "pending"
    /\ joinByToken' = [joinByToken EXCEPT !.status = "error", !.error = e]
    /\ Navigate("push:/dashboard/family")
    /\ joinCalls' = joinCalls - 1
    /\ lastAttempt' = e
    /\ everFailed' = TRUE
    /\ UNCHANGED <<token, pageStatus, mounted, shown, toasts, joinedOk>>
    /\ UNCHANGED authVars
JoinRejects(e) ==
    /\ joinByToken.status = "pending"
    /\ joinByToken' = [joinByToken EXCEPT !.status = "error", !.error = e]
    /\ Navigate("none")
    /\ joinCalls' = joinCalls - 1
    /\ lastAttempt' = e
    /\ everFailed' = TRUE
    /\ UNCHANGED <<token, pageStatus, mounted, shown, toasts, joinedOk>>
    /\ UNCHANGED authVars

InviteNext ==
    \/ InviteMount
    \/ \E st \in SessionStatus : InviteSessionChange(st)
    \/ HandleAccept
    \/ \E family \in Families : JoinResolves(family)
    \/ \E e \in JoinErrors : JoinRejects(e)

\* the hook, with the invite page not open
Init == AuthInit /\ InviteClosed
Spec == Init /\ [][AuthNext]_vars

\* the invite page, with the hook left in its initial state
PageInit == AuthInit /\ InviteInit
SpecInvite == PageInit /\ [][InviteNext]_vars

\* ------------------------------------------------------------------ claims
\* C1: isAuthenticated is true only if the most recent settlement of the
\* profile fetch was a success with a non-empty profile and the query is in
\* the success state; it is false while the query is pending, not fetched
\* or failed, whatever the session status.
C1_AuthenticatedOnlyOnSuccess ==
    /\ IsAuthenticated =>
         /\ userQuery.status = "success"
         /\ userQuery.data \in Tokens
         /\ lastSettle = "ok"
    /\ (\/ userQuery.status \in {"pending", "error"}
        \/ lastSettle \in {"none", "empty", "401", "other"}) => ~IsAuthenticated
C1_Witness == IsAuthenticated /\ lastSettle = "ok" /\ status = "authenticated"

\* C2 (as claimed): in an authenticated session with a token, an exposed
\* profile is the one the backend returned for that session's token.
C2_ProfileOfCurrentCredential ==
    (status = "authenticated" /\ HasToken(sessTok) /\ User \in Tokens)
        => User = sessTok

\* C3: at most one signOut() is in flight, and one step (one effect run)
\* starts at most one.
C3_SingleFlight == soInFlight <= 1 /\ soStarted <= 1
\* a 401 arrives while a sign-out is in flight and starts no second one
C3_Witness == just401 /\ soInFlight = 1 /\ soStarted = 0

\* C4 (as claimed): while the session is authenticated without a token,
\* exactly one sign-out accounts for it: one started during the episode, or
\* the one that was in flight when the episode began.
C4_ExactlyOneSignOut ==
    AuthNoToken(status, sessTok) =>
        \/ episodeStarts = 1
        \/ episodeStarts = 0 /\ soInFlight = 1

\* C5 (as claimed): right after the fetch settled with a 401, a sign-out is
\* in flight (just started, or started earlier and still running).
C5_SignOutOn401 == just401 => soInFlight >= 1

\* C6 (as claimed): the guard is held exactly while a signOut() call is in
\* flight: set from its start, free again once it completed, however it
\* completed.
C6_GuardHeldUntilCompletion == signingOut = (soInFlight > 0)

\* C7: isLoading is (status loading) or (status authenticated and the query
\* pending); false when unauthenticated; true for an authenticated session
\* without a token for which no fetch was ever started.
C7_IsLoading ==
    /\ IsLoading = (\/ status = "loading"
                    \/ status = "authenticated" /\ userQuery.status = "pending")
    /\ status = "unauthenticated" => ~IsLoading
    /\ (AuthNoToken(status, sessTok) /\ ~everFetched) => IsLoading
C7_Witness ==
    AuthNoToken(status, sessTok) /\ ~everFetched /\ IsLoading /\ signingOut

C9_ForwardAuthTriesFetch ==
    (status = "unauthenticated" /\ sessTok = NoToken) =>
        (userQuery.fetchStatus = "fetching" \/ userQuery.status # "pending")

\* C10: with no token parameter the page renders nothing, ever; every run
\* of its effect (the first one included) issues the redirect to
\* /dashboard/family; no other router call, no login redirect and no join
\* call happens, whatever the session status.
C10_NoTokenRedirectsHome ==
    NoInviteToken(token) =>
        /\ shown = {"null"}
        /\ InviteView(token, pageStatus) = "null"
        /\ mounted => (navs = {"replace:/dashboard/family"}
                       /\ lastNav = "replace:/dashboard/family")
        /\ ~mounted => navs = {}
        /\ joinByToken.status = "idle"
C10_Witness ==
    /\ NoInviteToken(token)
    /\ mounted
    /\ pageStatus = "unauthenticated"
    /\ lastNav = "replace:/dashboard/family"

\* the callbackUrl parameter of the last login redirect
CallbackUrl == SubSeq(lastUrl, Len(LoginPrefix) + 1, Len(lastUrl))

\* C11 (as claimed): the login redirect is /login?callbackUrl= followed by
\* the encoding of /invite?token=<token>; decoding the callback URL gives
\* the invite link, and the token read from that link is the same token.
C11_CallbackPreservesToken ==
    lastNav = "replace:/login" =>
        /\ lastUrl = LoginPrefix \o EncodeURIComponent(InvitePrefix \o token.value)
        /\ DecodeURIComponent(CallbackUrl) = InvitePrefix \o token.value
        /\ SearchParamsGet(QueryOf(DecodeURIComponent(CallbackUrl))) = token

\* C12: the push to /dashboard/family and the success notification happen
\* exactly when a join call has resolved, the notification naming the
\* family_name it returned; after a rejected join there is no notification
\* and no push.
C12_NavigateOnlyAfterJoin ==
    /\ ("push:/dashboard/family" \in navs) = joinedOk
    /\ joinedOk => /\ joinByToken.status = "success"
                   /\ joinByToken.data \in Families
                   /\ toasts = {joinByToken.data}
    /\ ~joinedOk => toasts = {}
    /\ lastAttempt \in JoinErrors =>
           /\ ~joinedOk
           /\ toasts = {}
           /\ "push:/dashboard/family" \notin navs
C12_Witness ==
    /\ joinedOk
    /\ everFailed
    /\ lastNav = "push:/dashboard/family"
    /\ lastUrl = FamilyPath

\* C13: on the acceptance view the message shown is that of the most recent
\* join attempt's error (404, 403, 409, anything else); no message is shown
\* unless the most recent attempt failed.
C13_MessageOfLastError ==
    /\ (InviteView(token, pageStatus) = "accept" /\ lastAttempt \in JoinErrors)
         => RenderedMessage =
              CASE lastAttempt = "404" ->
                     "This invite link is invalid or has expired."
                [] lastAttempt = "403" ->
                     "This invite was sent to a different email address."
                [] lastAttempt = "409" -> "You are already in a family."
                [] OTHER -> "Something went wrong. Please try again."
    /\ RenderedMessage # "" => lastAttempt \in JoinErrors
C13_Witness ==
    /\ RenderedMessage = "You are already in a family."
    /\ lastAttempt = "409"

\* C14: the button is disabled while a join is in flight and after a
\* success, enabled after a failure (the accept action can be taken again);
\* at most one join is in flight; none is started after a success.
C14_NoDuplicateJoin ==
    /\ joinCalls <= 1
    /\ (joinCalls = 1) = (joinByToken.status = "pending")
    /\ joinByToken.status \in {"pending", "success"}
           => AcceptDisabled(joinByToken)
    /\ joinByToken.status = "error" =>
           /\ ~AcceptDisabled(joinByToken)
           /\ (mounted /\ pageStatus = "authenticated") => ENABLED HandleAccept
    /\ joinedOk => (joinCalls = 0 /\ joinByToken.status = "success")
C14_Witness == everFailed /\ joinByToken.status = "pending" /\ joinCalls = 1

\* C15: a join call is started only from a page that has a token and an
\* authenticated session, and carries the token of the query parameter;
\* with a token and a loading or unauthenticated session the page shows the
\* loader only.
C15_JoinOnlyWhenAuthenticated ==
    /\ [](/\ joinByToken.status # "idle" =>
                (~NoInviteToken(token) /\ joinByToken.variables = token.value)
          /\ (~NoInviteToken(token)
                /\ pageStatus \in {"loading", "unauthenticated"})
               => InviteView(token, pageStatus) = "loader"
          /\ "accept" \in shown => ~NoInviteToken(token))
    /\ [][joinCalls' > joinCalls =>
            /\ pageStatus = "authenticated"
            /\ ~NoInviteToken(token)
            /\ joinByToken'.variables = token.value]_vars
C15_Witness ==
    /\ joinByToken.status = "pending"
    /\ pageStatus = "authenticated"
    /\ joinByToken.variables = token.value

\* the query is in the failed state: status error, nothing in flight
Failed == userQuery.status = "error" /\ userQuery.fetchStatus = "idle"

\* C16 (as claimed): from a failed state, a step that leaves the session
\* snapshot (status and token) as it is starts no fetch.
C16_FailureIsTerminal ==
    [][(Failed /\ status' = status /\ sessTok' = sessTok)
           => ~fetchStarted']_vars

\* C16 (amended): the failure itself starts no new fetch (retry: false);
\* from a failed state with the session snapshot unchanged a fetch starts
\* only for an enabled query (the refetch on reconnect), and otherwise the
\* failed state with its error persists; a session change that enables the
\* query starts a new fetch.
C16_NoAutomaticRetry ==
    [][/\ (userQuery.fetchStatus = "fetching" /\ userQuery'.status = "error"
             /\ userQuery' # userQuery)
            => (userQuery'.fetchStatus = "idle" /\ ~fetchStarted')
       /\ (Failed /\ status' = status /\ sessTok' = sessTok /\ fetchStarted')
            => (status = "authenticated" /\ sessTok # NoToken)
       /\ (Failed /\ status' = status /\ sessTok' = sessTok /\ ~fetchStarted')
            => (userQuery'.status = "error"
                /\ userQuery'.error = userQuery.error)
       /\ (Failed /\ ~(status = "authenticated" /\ sessTok # NoToken)
             /\ status' = "authenticated" /\ sessTok' # NoToken)
            => (fetchStarted' /\ userQuery'.fetchStatus = "fetching")]_vars
\* a new attempt is running after a failure
C16_Witness ==
    /\ lastSettle \in FetchErrors
    /\ fetchStarted
    /\ userQuery.fetchStatus = "fetching"

\* C17 (as claimed): no sign-out is started by a render that sees the
\* session unauthenticated, cached 401 or not.
C17_NoSignOutOnceUnauthenticated ==
    status = "unauthenticated" => soStarted = 0

\* C18 (as claimed): once the session is unauthenticated isAuthenticated
\* is false: isAuthenticated implies an authenticated session with a token.
C18_AuthenticatedImpliesSession ==
    /\ status = "unauthenticated" => ~IsAuthenticated
    /\ IsAuthenticated => (status = "authenticated" /\ HasToken(sessTok))

\* C19: whenever the session carries a token the API client's token is that
\* token; a step whose render sees no session token leaves the API client's
\* token as it was (it is never cleared).
C19_ApiTokenNeverCleared ==
    /\ [](HasToken(sessTok) => apiTok = sessTok)
    /\ [][IF HasToken(sessTok') THEN apiTok' = sessTok'
          ELSE apiTok' = apiTok]_vars
\* after a completed sign-out the client still holds the old token
C19_Witness ==
    /\ status = "unauthenticated"
    /\ sessTok = NoToken
    /\ apiTok # NoToken
    /\ ~signingOut

TypeOK ==
    /\ status \in SessionStatus
    /\ sessTok \in {NoToken} \cup Tokens
    /\ apiTok \in {NoToken} \cup Tokens
    /\ userQuery.status \in {"pending", "success", "error"}
    /\ userQuery.error \in {"none"} \cup FetchErrors
    /\ userQuery.fetchStatus \in {"idle", "fetching"}
    /\ signingOut \in BOOLEAN
    /\ soInFlight \in Nat
====
